---- MODULE Spec2Model ----
(***************************************************************************)
(* Model of klippy/extras/belt_probe.py: the interactive belt probe        *)
(* session (BeltProbeHelper), the ACCEPT-registration guard                *)
(* (verify_no_manual_probe) and the status record it publishes.            *)
(*                                                                         *)
(* Lengths are integers in units of 0.05 mm, so BISECT_MAX = 0.200 is 4    *)
(* and Y_BOB_MINIMUM = 0.500 is 10.  Resolved axis values are multiples    *)
(* of StepDist = 2 units, hence every midpoint the code computes is an     *)
(* integer and "/ 2." is exact.                                            *)
(*                                                                         *)
(* Python None is the empty tuple << >>; an optional scalar v is <<v>>.    *)
(* A toolhead position is <<x, y, z, e>> (Python indices 0..3), a          *)
(* kinematics position is a 3-tuple; Python index k is TLA+ index k+1.     *)
(*                                                                         *)
(* Commands carry well-formed parameters only (SPEED and Y parse).         *)
(* BeltProbe.cmd_MANUAL_PROBE / cmd_Y_ENDSTOP_CALIBRATE name the helper    *)
(* class ManualProbeHelper; the model takes START to be the construction   *)
(* of BeltProbeHelper, the only helper class of the file.                  *)
(***************************************************************************)
EXTENDS Integers, Sequences, FiniteSets, TLC

\* ---------------------------------------------------------------- bounds
MaxSessions == 2
ZMax == 20
MaxAdvances == 3

\* ------------------------------------------------------------- constants
Y_BOB_MINIMUM == 10
BISECT_MAX == 4
\* 9999999999999.9 in the source, beyond TLC's integers; like it, far
\* above every position plus 2 * BISECT_MAX, and even, so that the
\* midpoint with it is exact
SENTINEL == 2000000000
DEFAULT_SPEED == 5
StepDist == 2

None == << >>
Cmds == {"ACCEPT", "NEXT", "ABORT", "TESTY"}
Sessions == 1..MaxSessions
StartHeights == {10}
SpeedArgs == {None, <<3>>}
Tokens == {<<"+", 0>>, <<"++", 0>>, <<"-", 0>>, <<"--", 0>>}
Offsets == {<<"num", -10>>, <<"num", 0>>}
Requests == Tokens \cup Offsets
JogAxes == {1, 4}
JogValues == {1}

\* toolhead_pos  toolhead.get_position()
\* handlers      the dispatcher: command name -> session whose handler is
\*               registered (0: none)
\* sess          the fields of each BeltProbeHelper
\* nsess         helpers constructed so far; nadv: advances handled so far
\* callbacks     the arguments finalize_callback was called with, per session
\* nfinal        calls of finalize, per session
\* status        manual_probe.status, the record the helper writes
\* BeltProbe_status  the status field of BeltProbe, which get_status returns
\* resp          what the last command reported and commanded
VARIABLES toolhead_pos, handlers, sess, nsess, nadv, callbacks, nfinal, status,
          BeltProbe_status, resp

vars == <<toolhead_pos, handlers, sess, nsess, nadv, callbacks, nfinal, status,
          BeltProbe_status, resp>>

Min(a, b) == IF a < b THEN a ELSE b
Max(a, b) == IF a > b THEN a ELSE b

\* ------------------------------------------------- motion stack, resolver
\* commanded position of the rail that follows toolhead coordinate 2
Resolve(z) == ((z + StepDist \div 2) \div StepDist) * StepDist

\* kin.calc_position over the steppers' commanded positions; index 1
\* (Python) is the probed value cmd_TESTY and report_y_status read
calc_position(pos) == <<pos[1], Resolve(pos[3]), pos[2]>>

\* --------------------------------------------------------- status record
reset_status == [is_active |-> FALSE, y_position |-> None,
                 y_position_lower |-> None, y_position_upper |-> None]

\* ------------------------------------------------------------ dispatcher
NoHandlers == [c \in Cmds |-> 0]

\* a guard that admits every start
verify_admits_all(h) == TRUE

\* register_command('ACCEPT', 'dummy') raises iff ACCEPT has a handler
verify_no_manual_probe(h) == h["ACCEPT"] = 0

\* ---------------------------------------------------- BeltProbeHelper
NewSession == [speed |-> 0, past_positions |-> << >>,
               last_toolhead_pos |-> None, last_kinematics_pos |-> None,
               start_position |-> None]

\* a cache that is never refreshed once it is filled
get_kinematics_pos_stale(rec, pos) ==
    IF rec.last_toolhead_pos # None
    THEN [rec |-> rec, kin |-> rec.last_kinematics_pos, flushes |-> 0]
    ELSE [rec |-> [rec EXCEPT !.last_toolhead_pos = pos,
                              !.last_kinematics_pos = calc_position(pos)],
          kin |-> calc_position(pos), flushes |-> 1]

\* result: the session record after the call, the value returned and the
\* number of flush_step_generation calls
get_kinematics_pos(rec, pos) ==
    IF pos = rec.last_toolhead_pos
    THEN [rec |-> rec, kin |-> rec.last_kinematics_pos, flushes |-> 0]
    ELSE [rec |-> [rec EXCEPT !.last_toolhead_pos = pos,
                              !.last_kinematics_pos = calc_position(pos)],
          kin |-> calc_position(pos), flushes |-> 1]

RECURSIVE bisect(_, _, _, _)
bisect(a, x, lo, hi) ==
    IF lo < hi
    THEN LET mid == (lo + hi) \div 2
         IN  IF a[mid + 1] < x THEN bisect(a, x, mid + 1, hi)
                               ELSE bisect(a, x, lo, mid)
    ELSE lo

bisect_left(a, x) == bisect(a, x, 0, Len(a))

list_insert(a, i, x) == SubSeq(a, 1, i) \o <<x>> \o SubSeq(a, i + 1, Len(a))

\* a store that does not look for the value first
store_position_always(pp, y_pos) ==
    list_insert(pp, bisect_left(pp, y_pos), y_pos)

\* lines 205-208: store the current value unless it is already stored
store_position(pp, y_pos) ==
    LET insert_pos == bisect_left(pp, y_pos)
    IN  IF insert_pos >= Len(pp) \/ pp[insert_pos + 1] # y_pos
        THEN list_insert(pp, insert_pos, y_pos)
        ELSE pp

\* a coarse step that ignores the stored neighbours
next_y_pos_coarse_unbounded(pp, insert_pos, y_pos, req) ==
    IF req[1] \in {"+", "++"}
    THEN LET c0 == IF insert_pos < Len(pp) - 1 THEN pp[insert_pos + 2]
                                               ELSE SENTINEL
         IN  IF req[1] = "+" THEN Min((c0 + y_pos) \div 2,
                                      y_pos + BISECT_MAX)
                             ELSE y_pos + BISECT_MAX
    ELSE IF req[1] \in {"-", "--"}
    THEN LET c0 == IF insert_pos > 0 THEN pp[insert_pos] ELSE -SENTINEL
         IN  IF req[1] = "-" THEN Max((c0 + y_pos) \div 2,
                                      y_pos - BISECT_MAX)
                             ELSE y_pos - BISECT_MAX
    ELSE y_pos + req[2]

\* a fine step that is the midpoint whatever its length
next_y_pos_fine_unclamped(pp, insert_pos, y_pos, req) ==
    IF req[1] \in {"+", "++"}
    THEN LET c0 == IF insert_pos < Len(pp) - 1 THEN pp[insert_pos + 2]
                                               ELSE SENTINEL
         IN  IF req[1] = "+"
             THEN (IF c0 = SENTINEL THEN y_pos + BISECT_MAX
                                    ELSE (c0 + y_pos) \div 2)
             ELSE Min(c0, y_pos + BISECT_MAX)
    ELSE IF req[1] \in {"-", "--"}
    THEN LET c0 == IF insert_pos > 0 THEN pp[insert_pos] ELSE -SENTINEL
         IN  IF req[1] = "-"
             THEN (IF c0 = -SENTINEL THEN y_pos - BISECT_MAX
                                     ELSE (c0 + y_pos) \div 2)
             ELSE Max(c0, y_pos - BISECT_MAX)
    ELSE y_pos + req[2]

\* an explicit offset held between the stored neighbours
next_y_pos_offset_clamped(pp, insert_pos, y_pos, req) ==
    LET up == IF insert_pos < Len(pp) - 1 THEN pp[insert_pos + 2]
                                          ELSE SENTINEL
        dn == IF insert_pos > 0 THEN pp[insert_pos] ELSE -SENTINEL
    IN  IF req[1] \in {"+", "++"}
        THEN Min(IF req[1] = "+" THEN (up + y_pos) \div 2 ELSE up,
                 y_pos + BISECT_MAX)
        ELSE IF req[1] \in {"-", "--"}
        THEN Max(IF req[1] = "-" THEN (dn + y_pos) \div 2 ELSE dn,
                 y_pos - BISECT_MAX)
        ELSE Max(dn, Min(up, y_pos + req[2]))

\* lines 210-226: pp is the history after store_position
next_y_pos(pp, insert_pos, y_pos, req) ==
    IF req[1] \in {"+", "++"}
    THEN LET c0 == IF insert_pos < Len(pp) - 1 THEN pp[insert_pos + 2]
                                               ELSE SENTINEL
             check_y == IF req[1] = "+" THEN (c0 + y_pos) \div 2 ELSE c0
         IN  Min(check_y, y_pos + BISECT_MAX)
    ELSE IF req[1] \in {"-", "--"}
    THEN LET c0 == IF insert_pos > 0 THEN pp[insert_pos] ELSE -SENTINEL
             check_y == IF req[1] = "-" THEN (c0 + y_pos) \div 2 ELSE c0
         IN  Max(check_y, y_pos - BISECT_MAX)
    ELSE y_pos + req[2]

\* a move_y that goes on to the target after the clearance move failed
move_y_continues(pos, y_pos, speed, fail) ==
    LET y_bob_pos == y_pos + Y_BOB_MINIMUM
        lift == pos[3] < y_bob_pos
        targets == IF lift THEN <<y_bob_pos, y_pos>> ELSE <<y_pos>>
        ok == fail = 0 \/ fail > Len(targets)
        done == IF ok THEN Len(targets) ELSE fail - 1
    IN  [pos |-> IF done = 0 THEN pos
                 ELSE [pos EXCEPT ![3] = targets[done]],
         moves |-> [k \in 1..Len(targets) |-> <<targets[k], speed>>],
         ok |-> ok]

\* a move_y that lifts also from exactly the clearance height
move_y_lifts_at_clearance(pos, y_pos, speed, fail) ==
    LET y_bob_pos == y_pos + Y_BOB_MINIMUM
        lift == pos[3] <= y_bob_pos
        targets == IF lift THEN <<y_bob_pos, y_pos>> ELSE <<y_pos>>
        ok == fail = 0 \/ fail > Len(targets)
        done == IF ok THEN Len(targets) ELSE fail - 1
        issued == IF ok THEN Len(targets) ELSE fail
    IN  [pos |-> IF done = 0 THEN pos
                 ELSE [pos EXCEPT ![3] = targets[done]],
         moves |-> [k \in 1..issued |-> <<targets[k], speed>>],
         ok |-> ok]

\* lines 142-151; fail is the ordinal of the manual_move call that raises
\* command_error (0: none does).  A rejected move leaves the position.
move_y(pos, y_pos, speed, fail) ==
    LET y_bob_pos == y_pos + Y_BOB_MINIMUM
        lift == pos[3] < y_bob_pos
        targets == IF lift THEN <<y_bob_pos, y_pos>> ELSE <<y_pos>>
        ok == fail = 0 \/ fail > Len(targets)
        done == IF ok THEN Len(targets) ELSE fail - 1
        issued == IF ok THEN Len(targets) ELSE fail
    IN  [pos |-> IF done = 0 THEN pos
                 ELSE [pos EXCEPT ![3] = targets[done]],
         moves |-> [k \in 1..issued |-> <<targets[k], speed>>],
         ok |-> ok]

\* a report that takes the current value for its own upper neighbour
report_y_status_own_neighbour(rec, pos, warn_no_change, prev) ==
    LET g == get_kinematics_pos(rec, pos)
        y_pos == g.kin[2]
        pp == rec.past_positions
        b == bisect_left(pp, y_pos)
        prev_pos == b - 1
        next_pos == b
        prev_pos_val == IF prev_pos >= 0 THEN <<pp[prev_pos + 1]>> ELSE None
        next_pos_val == IF next_pos < Len(pp) THEN <<pp[next_pos + 1]>>
                                              ELSE None
    IN  [rec |-> g.rec,
         flushes |-> g.flushes,
         status |-> [is_active |-> TRUE, y_position |-> <<y_pos>>,
                     y_position_lower |-> prev_pos_val,
                     y_position_upper |-> next_pos_val],
         msgs |-> (IF warn_no_change /\ <<y_pos>> = prev
                   THEN <<"no_change">> ELSE << >>) \o <<"report">>]

\* a report that warns whenever the value is the one before the move
report_y_status_warns_always(rec, pos, warn_no_change, prev) ==
    LET g == get_kinematics_pos(rec, pos)
        y_pos == g.kin[2]
        pp == rec.past_positions
        b == bisect_left(pp, y_pos)
        prev_pos == b - 1
        next_pos == IF b < Len(pp) /\ pp[b + 1] = y_pos THEN b + 1 ELSE b
        prev_pos_val == IF prev_pos >= 0 THEN <<pp[prev_pos + 1]>> ELSE None
        next_pos_val == IF next_pos < Len(pp) THEN <<pp[next_pos + 1]>>
                                              ELSE None
    IN  [rec |-> g.rec,
         flushes |-> g.flushes,
         status |-> [is_active |-> TRUE, y_position |-> <<y_pos>>,
                     y_position_lower |-> prev_pos_val,
                     y_position_upper |-> next_pos_val],
         msgs |-> (IF <<y_pos>> = prev
                   THEN <<"no_change">> ELSE << >>) \o <<"report">>]

\* lines 153-182: result is the session record, the published status and
\* the messages
report_y_status(rec, pos, warn_no_change, prev) ==
    LET g == get_kinematics_pos(rec, pos)
        y_pos == g.kin[2]
        pp == rec.past_positions
        b == bisect_left(pp, y_pos)
        prev_pos == b - 1
        next_pos == IF b < Len(pp) /\ pp[b + 1] = y_pos THEN b + 1 ELSE b
        prev_pos_val == IF prev_pos >= 0 THEN <<pp[prev_pos + 1]>> ELSE None
        next_pos_val == IF next_pos < Len(pp) THEN <<pp[next_pos + 1]>>
                                              ELSE None
    IN  [rec |-> g.rec,
         flushes |-> g.flushes,
         status |-> [is_active |-> TRUE, y_position |-> <<y_pos>>,
                     y_position_lower |-> prev_pos_val,
                     y_position_upper |-> next_pos_val],
         msgs |-> (IF warn_no_change /\ <<y_pos>> = prev
                   THEN <<"no_change">> ELSE << >>) \o <<"report">>]

\* the outcome of the last command, as the operator and the caller see it
Response(cmd, sid, error, msgs, moves, req, y, target, flushes) ==
    [cmd |-> cmd, sid |-> sid, error |-> error, msgs |-> msgs,
     moves |-> moves, req |-> req, y |-> y, target |-> target,
     flushes |-> flushes]

Init ==
    /\ toolhead_pos \in {<<0, 0, z, 0>> : z \in StartHeights}
    /\ handlers = NoHandlers
    /\ sess = [s \in Sessions |-> NewSession]
    /\ nsess = 0
    /\ nadv = 0
    /\ callbacks = [s \in Sessions |-> << >>]
    /\ nfinal = [s \in Sessions |-> 0]
    /\ status = reset_status
    /\ BeltProbe_status = reset_status
    /\ resp = Response("INIT", 0, "none", << >>, << >>, None, None, None, 0)
\* a finalize that leaves ACCEPT registered
finalize_keeps_ACCEPT(s, success) ==
    LET g == IF success THEN get_kinematics_pos(sess[s], toolhead_pos)
             ELSE [rec |-> sess[s], kin |-> None, flushes |-> 0]
    IN  [status |-> reset_status,
         handlers |-> [NoHandlers EXCEPT !["ACCEPT"] = s],
         sess |-> [sess EXCEPT ![s] = NewSession],
         callbacks |-> [callbacks EXCEPT ![s] = Append(@, g.kin)],
         nfinal |-> [nfinal EXCEPT ![s] = @ + 1],
         flushes |-> g.flushes]

\* a finalize that reports to its caller only on success
finalize_silent_on_failure(s, success) ==
    LET g == IF success THEN get_kinematics_pos(sess[s], toolhead_pos)
             ELSE [rec |-> sess[s], kin |-> None, flushes |-> 0]
    IN  [status |-> reset_status,
         handlers |-> NoHandlers,
         sess |-> [sess EXCEPT ![s] = NewSession],
         callbacks |-> IF success
                       THEN [callbacks EXCEPT ![s] = Append(@, g.kin)]
                       ELSE callbacks,
         nfinal |-> [nfinal EXCEPT ![s] = @ + 1],
         flushes |-> g.flushes]

\* lines 231-240: the state finalize leaves behind for session s.  The
\* dispatcher's handlers are the only references to the helper (line 52
\* does not keep the object), so unregistering them drops its fields.
finalize(s, success) ==
    LET g == IF success THEN get_kinematics_pos(sess[s], toolhead_pos)
             ELSE [rec |-> sess[s], kin |-> None, flushes |-> 0]
    IN  [status |-> reset_status,
         handlers |-> NoHandlers,
         sess |-> [sess EXCEPT ![s] = NewSession],
         callbacks |-> [callbacks EXCEPT ![s] = Append(@, g.kin)],
         nfinal |-> [nfinal EXCEPT ![s] = @ + 1],
         flushes |-> g.flushes]

\* START (BELT_PROBE, Y_ENDSTOP_CALIBRATE): BeltProbeHelper.__init__
Start(arg) ==
    IF ~verify_no_manual_probe(handlers)
    THEN /\ resp' = Response("START", 0, "conflict", << >>, << >>,
                             None, None, None, 0)
         /\ UNCHANGED <<toolhead_pos, handlers, sess, nsess, nadv,
                        callbacks, nfinal, status, BeltProbe_status>>
    ELSE /\ nsess < MaxSessions
         /\ LET s == nsess + 1
                rec == [NewSession EXCEPT
                          !.speed = IF arg = None THEN DEFAULT_SPEED
                                                  ELSE arg[1],
                          !.start_position = toolhead_pos]
                r == report_y_status(rec, toolhead_pos, FALSE, None)
            IN  /\ nsess' = s
                /\ handlers' = [c \in Cmds |-> s]
                /\ sess' = [sess EXCEPT ![s] = r.rec]
                /\ status' = r.status
                /\ resp' = Response("START", s, "none",
                                    <<"starting">> \o r.msgs, << >>,
                                    None, None, None, r.flushes)
         /\ UNCHANGED <<toolhead_pos, nadv, callbacks, nfinal,
                        BeltProbe_status>>

\* ADVANCE: cmd_TESTY of the session whose handler is installed.  Each
\* local of the method is bound once (\E over a singleton).
TESTY(req, fail) ==
    /\ handlers["TESTY"] # 0
    /\ nadv < MaxAdvances
    /\ nadv' = nadv + 1
    /\ \E s \in {handlers["TESTY"]} :
       \E g \in {get_kinematics_pos(sess[s], toolhead_pos)} :
       \E y_pos \in {g.kin[2]} :
       \E insert_pos \in {bisect_left(g.rec.past_positions, y_pos)} :
       \E pp \in {store_position(g.rec.past_positions, y_pos)} :
       \E rec1 \in {[g.rec EXCEPT !.past_positions = pp]} :
       \E target \in {next_y_pos(pp, insert_pos, y_pos, req)} :
       \E m \in {move_y(toolhead_pos, target, rec1.speed, fail)} :
           /\ \A k \in DOMAIN m.moves :
                 m.moves[k][1] >= 0 /\ m.moves[k][1] <= ZMax
           /\ toolhead_pos' = m.pos
           /\ IF m.ok
              THEN \E r \in {report_y_status(rec1, m.pos, target # y_pos,
                                            <<y_pos>>)} :
                       /\ sess' = [sess EXCEPT ![s] = r.rec]
                       /\ status' = r.status
                       /\ resp' = Response("TESTY", s, "none", r.msgs,
                                           m.moves, req, <<y_pos>>,
                                           <<target>>,
                                           g.flushes + r.flushes)
                       /\ UNCHANGED <<handlers, callbacks, nfinal>>
              ELSE \E f \in {finalize(s, FALSE)} :
                       /\ sess' = f.sess
                       /\ status' = f.status
                       /\ handlers' = f.handlers
                       /\ callbacks' = f.callbacks
                       /\ nfinal' = f.nfinal
                       /\ resp' = Response("TESTY", s, "motion", << >>,
                                           m.moves, req, <<y_pos>>,
                                           <<target>>, g.flushes)
    /\ UNCHANGED <<nsess, BeltProbe_status>>

\* a check that also accepts an unchanged height
accept_refused_strictly_above(pos, start_pos) ==
    SubSeq(pos, 1, 2) # SubSeq(start_pos, 1, 2) \/ pos[3] > start_pos[3]

\* line 188: the condition under which cmd_ACCEPT reports a failed probe
accept_refused(pos, start_pos) ==
    SubSeq(pos, 1, 2) # SubSeq(start_pos, 1, 2) \/ pos[3] >= start_pos[3]

\* ACCEPT and its alias NEXT: cmd_ACCEPT
ACCEPT(name) ==
    /\ handlers[name] # 0
    /\ LET s == handlers[name]
           pos == toolhead_pos
           start_pos == sess[s].start_position
           bad == accept_refused(pos, start_pos)
           f == finalize(s, ~bad)
       IN  /\ sess' = f.sess
           /\ status' = f.status
           /\ handlers' = f.handlers
           /\ callbacks' = f.callbacks
           /\ nfinal' = f.nfinal
           /\ resp' = Response(name, s, "none",
                               IF bad THEN <<"probe_failed">> ELSE << >>,
                               << >>, None, None, None, f.flushes)
    /\ UNCHANGED <<toolhead_pos, nsess, nadv, BeltProbe_status>>

\* ABORT: cmd_ABORT
ABORT ==
    /\ handlers["ABORT"] # 0
    /\ LET s == handlers["ABORT"]
           f == finalize(s, FALSE)
       IN  /\ sess' = f.sess
           /\ status' = f.status
           /\ handlers' = f.handlers
           /\ callbacks' = f.callbacks
           /\ nfinal' = f.nfinal
           /\ resp' = Response("ABORT", s, "none", << >>, << >>,
                               None, None, None, f.flushes)
    /\ UNCHANGED <<toolhead_pos, nsess, nadv, BeltProbe_status>>

\* the operator moves another axis between two commands of the session
\* (the position cmd_ACCEPT reads need not be the one __init__ captured)
Jog(axis, v) ==
    /\ handlers["ACCEPT"] # 0
    /\ toolhead_pos[axis] # v
    /\ toolhead_pos' = [toolhead_pos EXCEPT ![axis] = v]
    /\ resp' = Response("JOG", 0, "none", << >>, << >>, None, None, None, 0)
    /\ UNCHANGED <<handlers, sess, nsess, nadv, callbacks, nfinal, status,
                   BeltProbe_status>>

Next ==
    \/ \E arg \in SpeedArgs : Start(arg)
    \/ \E req \in Requests, fail \in 0..2 : TESTY(req, fail)
    \/ \E name \in {"ACCEPT", "NEXT"} : ACCEPT(name)
    \/ ABORT
    \/ \E axis \in JogAxes, v \in JogValues : Jog(axis, v)

Spec == Init /\ [][Next]_vars

\* cmd_ABORT called on the helper of a session that is already finalized,
\* by a caller that kept the bound handler
StaleABORT(s) ==
    /\ s <= nsess
    /\ nfinal[s] = 1
    /\ LET f == finalize(s, FALSE)
       IN  /\ sess' = f.sess
           /\ status' = f.status
           /\ handlers' = f.handlers
           /\ callbacks' = f.callbacks
           /\ nfinal' = f.nfinal
           /\ resp' = Response("STALE_ABORT", s, "none", << >>, << >>,
                               None, None, None, f.flushes)
    /\ UNCHANGED <<toolhead_pos, nsess, nadv, BeltProbe_status>>

NextDirect ==
    \/ Next
    \/ \E s \in Sessions : StaleABORT(s)

SpecDirect == Init /\ [][NextDirect]_vars
\* ------------------------------------------------------------ properties
\* a session is active from the end of its construction until finalize
Active(s) == s <= nsess /\ nfinal[s] = 0
ActiveSessions == {s \in Sessions : Active(s)}
Installed(s) == \A c \in Cmds : handlers[c] = s

\* C1: in every reachable state at most one session is active; the active
\* session owns all four transient commands, and with no active session
\* no transient command is installed.
C1_AtMostOneActive ==
    /\ Cardinality(ActiveSessions) <= 1
    /\ \A s \in ActiveSessions : Installed(s)
    /\ ActiveSessions = {} => handlers = NoHandlers

\* a second session is active after the first was finalized, and a START
\* has just been refused
C1_Witness ==
    /\ nsess = 2 /\ Active(2) /\ nfinal[1] = 1
    /\ resp.cmd = "START" /\ resp.error = "conflict"

\* C2: a START handled while a session is active reports the conflict and
\* changes neither the session (history, start position, speed, cache),
\* nor the installed commands, nor the published status, nor the position,
\* and invokes no completion callback.
C2_StartWhileActiveRefused ==
    [][(ActiveSessions # {} /\ resp'.cmd = "START" /\ resp' # resp)
         => /\ resp'.error = "conflict"
            /\ resp'.msgs = << >>
            /\ sess' = sess
            /\ handlers' = handlers
            /\ status' = status
            /\ callbacks' = callbacks
            /\ nfinal' = nfinal
            /\ nsess' = nsess
            /\ toolhead_pos' = toolhead_pos]_vars

\* a START was refused while a session with a non-empty history is active
C2_Witness ==
    /\ resp.cmd = "START" /\ resp.error = "conflict"
    /\ \E s \in ActiveSessions :
          /\ Len(sess[s].past_positions) > 0
          /\ status.is_active

\* C3: once every started session is finalized (by ACCEPT, a failed
\* ACCEPT, ABORT or a motion failure) the guard is free, and a START
\* reports a conflict only while a session is active.
C3_FinalizeReleasesGuard ==
    /\ (\A s \in 1..nsess : nfinal[s] > 0) => handlers["ACCEPT"] = 0
    /\ (resp.cmd = "START" /\ resp.error = "conflict")
          => ActiveSessions # {}
    /\ (resp.cmd = "TESTY" /\ resp.error = "motion")
          => handlers["ACCEPT"] = 0
    /\ resp.cmd \in {"ACCEPT", "NEXT", "ABORT"} => handlers["ACCEPT"] = 0

\* a START was admitted after an earlier session had been finalized
C3_Witness ==
    /\ nsess = 2 /\ nfinal[1] = 1
    /\ resp.cmd = "START" /\ resp.error = "none" /\ resp.sid = 2

\* C4: the completion callback of a session is invoked never more than
\* once, not before finalize and exactly once by the time the session is
\* finalized; it receives the resolved position after a successful
\* ACCEPT and no value after ABORT, a failed ACCEPT or a motion failure.
C4_CallbackExactlyOnce ==
    /\ \A s \in Sessions :
          /\ Len(callbacks[s]) <= 1
          /\ Active(s) => callbacks[s] = << >>
          /\ nfinal[s] > 0 => Len(callbacks[s]) = 1
    /\ resp.cmd = "ABORT" => callbacks[resp.sid] = <<None>>
    /\ (resp.cmd = "TESTY" /\ resp.error = "motion")
          => callbacks[resp.sid] = <<None>>
    /\ (resp.cmd \in {"ACCEPT", "NEXT"} /\ resp.msgs # << >>)
          => callbacks[resp.sid] = <<None>>
    /\ (resp.cmd \in {"ACCEPT", "NEXT"} /\ resp.msgs = << >>)
          => callbacks[resp.sid] = <<calc_position(toolhead_pos)>>

\* one session ended without a value, the next with a resolved position
C4_Witness ==
    /\ callbacks[1] = <<None>>
    /\ Len(callbacks[2]) = 1 /\ callbacks[2][1] # None
\* C5: a terminal path run on an already finalized session invokes the
\* completion callback no second time and releases nothing: the commands
\* and the status of a session started in between stay as they were.
C5_FinalizeIdempotent ==
    [][(resp'.cmd = "STALE_ABORT" /\ nfinal'[resp'.sid] = 2)
         => /\ callbacks' = callbacks
            /\ handlers' = handlers
            /\ status' = status]_vars

Range(f) == {f[i] : i \in DOMAIN f}
StrictlyAscending(pp) == \A i \in 1..Len(pp) - 1 : pp[i] < pp[i + 1]
SetMin(S) == CHOOSE m \in S : \A p \in S : m <= p
SetMax(S) == CHOOSE m \in S : \A p \in S : m >= p

\* a step of cmd_TESTY, and what it started from
TestyStep == nadv' = nadv + 1
CurrentY == calc_position(toolhead_pos)[2]
Stored == Range(sess[resp'.sid].past_positions)
Above == {p \in Stored : p > CurrentY}
Below == {p \in Stored : p < CurrentY}

\* C6: the history of every session is strictly ascending in every state;
\* an advance from a stored value y leaves it as it is, an advance from
\* any other y adds exactly y; no other command adds to it.
C6_PastPositionsSorted ==
    /\ [](\A s \in Sessions : StrictlyAscending(sess[s].past_positions))
    /\ [][\A s \in Sessions :
            LET pp == sess[s].past_positions
                qq == sess'[s].past_positions
            IN  IF TestyStep /\ resp'.sid = s /\ resp'.error = "none"
                THEN /\ resp'.y = <<CurrentY>>
                     /\ CurrentY \in Range(pp) => qq = pp
                     /\ CurrentY \notin Range(pp) =>
                           /\ Range(qq) = Range(pp) \cup {CurrentY}
                           /\ Len(qq) = Len(pp) + 1
                ELSE qq = pp \/ qq = << >>]_vars

\* one session made three advances and holds two values: one advance
\* started from a stored value, the others inserted theirs
C6_Witness ==
    /\ nsess = 1 /\ Active(1) /\ nadv = 3
    /\ resp.cmd = "TESTY"
    /\ Len(sess[1].past_positions) = 2

\* C7: with + or ++ the candidate never exceeds the nearest stored value
\* above y, with - or -- it is never below the nearest stored value below
\* y; with ++ it is that upper neighbour if y + BISECT_MAX would pass it
\* and y + BISECT_MAX otherwise (also without an upper neighbour), and
\* symmetrically with --.
C7_BisectionBound ==
    [][TestyStep =>
         LET t == resp'.target[1]
             k == resp'.req[1]
         IN  /\ (k \in {"+", "++"} /\ Above # {}) => t <= SetMin(Above)
             /\ (k \in {"-", "--"} /\ Below # {}) => t >= SetMax(Below)
             /\ k = "++" =>
                  t = IF Above # {} /\ CurrentY + BISECT_MAX > SetMin(Above)
                      THEN SetMin(Above) ELSE CurrentY + BISECT_MAX
             /\ k = "--" =>
                  t = IF Below # {} /\ CurrentY - BISECT_MAX < SetMax(Below)
                      THEN SetMax(Below) ELSE CurrentY - BISECT_MAX]_vars

\* a coarse step that stopped at a stored neighbour nearer than BISECT_MAX
C7_Witness ==
    /\ resp.cmd = "TESTY" /\ resp.error = "none" /\ resp.req[1] = "++"
    /\ resp.target[1] < resp.y[1] + BISECT_MAX
    /\ resp.target[1] \in Range(sess[resp.sid].past_positions)

\* a step of cmd_ACCEPT (under either name)
AcceptStep ==
    /\ resp'.cmd \in {"ACCEPT", "NEXT"}
    /\ nfinal'[resp'.sid] = nfinal[resp'.sid] + 1
AcceptSucceeded == callbacks'[resp'.sid] # <<None>>
StartPos == sess[resp'.sid].start_position

\* what every ACCEPT does besides choosing the outcome
AcceptFinalizes ==
    /\ nfinal'[resp'.sid] > 0
    /\ handlers' = NoHandlers
    /\ status' = reset_status
    /\ Len(callbacks'[resp'.sid]) = 1
    /\ AcceptSucceeded <=> resp'.msgs = << >>
    /\ ~ AcceptSucceeded => resp'.msgs = <<"probe_failed">>

\* C8 as stated: ACCEPT succeeds iff every coordinate but the probed one
\* (x, y and e) equals its start value and the probed one is strictly
\* below its start value; otherwise it reports and finalizes as failure;
\* it never leaves the session active.
C8_AcceptIffAllOtherCoordinates ==
    [][AcceptStep =>
         /\ AcceptFinalizes
         /\ AcceptSucceeded <=>
              /\ \A i \in {1, 2, 4} : toolhead_pos[i] = StartPos[i]
              /\ toolhead_pos[3] < StartPos[3]]_vars

\* C8 amended: only x and y are compared with the start position
C8_AcceptIffXYUnchanged ==
    [][AcceptStep =>
         /\ AcceptFinalizes
         /\ AcceptSucceeded <=>
              /\ \A i \in {1, 2} : toolhead_pos[i] = StartPos[i]
              /\ toolhead_pos[3] < StartPos[3]]_vars

\* the first session (started with e = 0) was accepted under the name
\* NEXT with e = 1
C8_Witness ==
    /\ nsess = 1 /\ resp.cmd = "NEXT"
    /\ callbacks[1] # <<None>>
    /\ toolhead_pos[4] = 1

\* C9 as stated: a fine step with a stored neighbour on its side goes to
\* the midpoint between y and that neighbour.
C9_FineStepIsMidpoint ==
    [][TestyStep =>
         LET t == resp'.target[1]
             k == resp'.req[1]
         IN  /\ (k = "+" /\ Above # {}) => 2 * t = CurrentY + SetMin(Above)
             /\ (k = "-" /\ Below # {}) => 2 * t = CurrentY + SetMax(Below)
       ]_vars

\* C9 amended: the midpoint, unless it is further than BISECT_MAX from y;
\* then y + BISECT_MAX (for -, y - BISECT_MAX)
C9_FineStepMidpointWithinMax ==
    [][TestyStep =>
         LET t == resp'.target[1]
             k == resp'.req[1]
         IN  /\ (k = "+" /\ Above # {}) =>
                  IF SetMin(Above) - CurrentY <= 2 * BISECT_MAX
                  THEN 2 * t = CurrentY + SetMin(Above)
                  ELSE t = CurrentY + BISECT_MAX
             /\ (k = "-" /\ Below # {}) =>
                  IF CurrentY - SetMax(Below) <= 2 * BISECT_MAX
                  THEN 2 * t = CurrentY + SetMax(Below)
                  ELSE t = CurrentY - BISECT_MAX]_vars

\* a fine step up whose upper neighbour is more than 2 * BISECT_MAX away
C9_Witness ==
    /\ resp.cmd = "TESTY" /\ resp.error = "none" /\ resp.req[1] = "+"
    /\ \E p \in Range(sess[resp.sid].past_positions) :
          /\ p > resp.y[1] + 2 * BISECT_MAX
          /\ \A q \in Range(sess[resp.sid].past_positions) :
                q > resp.y[1] => q >= p
    /\ resp.target[1] = resp.y[1] + BISECT_MAX

\* C10: for an explicit offset d the candidate is y + d, whatever is
\* stored.
C10_ExplicitOffsetUnclamped ==
    [][TestyStep =>
         (resp'.req[1] = "num" =>
             resp'.target = <<CurrentY + resp'.req[2]>>)]_vars

\* an explicit offset that passed a stored value
C10_Witness ==
    /\ resp.cmd = "TESTY" /\ resp.error = "none" /\ resp.req[1] = "num"
    /\ \E p \in Range(sess[resp.sid].past_positions) :
          resp.target[1] < p /\ p < resp.y[1]

\* ------------------------------------------- the candidate on its own
\* lines 203-226 of cmd_TESTY applied to a session in progress whose
\* history and height are drawn from a few values (1.0, 2.0, 3.0 and
\* 5.0 mm), without the move that follows
ExampleValues == {20, 40, 60, 100}
ExampleRequests == Requests \cup {<<"num", -2>>}

RECURSIVE SortedSeq(_)
SortedSeq(S) ==
    IF S = {} THEN << >>
    ELSE LET m == CHOOSE x \in S : \A p \in S : x <= p
         IN  <<m>> \o SortedSeq(S \ {m})

SessionInProgress(pp, pos) ==
    [speed |-> DEFAULT_SPEED, past_positions |-> pp,
     last_toolhead_pos |-> pos, last_kinematics_pos |-> calc_position(pos),
     start_position |-> pos]

InitCandidate ==
    /\ toolhead_pos \in {<<0, 0, z, 0>> : z \in ExampleValues}
    /\ handlers = [c \in Cmds |-> 1]
    /\ \E H \in SUBSET ExampleValues :
          sess = [s \in Sessions |->
                    IF s = 1
                    THEN SessionInProgress(SortedSeq(H), toolhead_pos)
                    ELSE NewSession]
    /\ nsess = 1
    /\ nadv = 0
    /\ callbacks = [s \in Sessions |-> << >>]
    /\ nfinal = [s \in Sessions |-> 0]
    /\ status = report_y_status(sess[1], toolhead_pos, FALSE, None).status
    /\ BeltProbe_status = reset_status
    /\ resp = Response("INIT", 0, "none", << >>, << >>, None, None, None, 0)

Candidate(req) ==
    /\ handlers["TESTY"] # 0
    /\ nadv < MaxAdvances
    /\ nadv' = nadv + 1
    /\ \E s \in {handlers["TESTY"]} :
       \E g \in {get_kinematics_pos(sess[s], toolhead_pos)} :
       \E y_pos \in {g.kin[2]} :
       \E insert_pos \in {bisect_left(g.rec.past_positions, y_pos)} :
       \E pp \in {store_position(g.rec.past_positions, y_pos)} :
       \E target \in {next_y_pos(pp, insert_pos, y_pos, req)} :
           /\ sess' = [sess EXCEPT ![s] = [g.rec EXCEPT !.past_positions = pp]]
           /\ resp' = Response("CANDIDATE", s, "none", << >>, << >>, req,
                               <<y_pos>>, <<target>>, g.flushes)
    /\ UNCHANGED <<toolhead_pos, handlers, nsess, callbacks, nfinal, status,
                   BeltProbe_status>>

NextCandidate == \E req \in ExampleRequests : Candidate(req)

SpecCandidate == InitCandidate /\ [][NextCandidate]_vars

\* the step of the worked example: 1.0 and 3.0 stored, y = 2.0, token -
ExampleMinusStep ==
    /\ TestyStep
    /\ sess[1].past_positions = <<20, 60>>
    /\ CurrentY = 40
    /\ resp'.req[1] = "-"

\* C11 as stated: with 1.0 and 3.0 stored and y = 2.0, the token - gives
\* the candidate 0.5.
C11_ExampleMinusIsHalf ==
    [][ExampleMinusStep => resp'.target = <<10>>]_vars

\* C11 amended: the candidate is 1.8 (the midpoint 1.5 is further than
\* BISECT_MAX below y, so y - BISECT_MAX is taken)
C11_ExampleMinusIsOnePointEight ==
    [][ExampleMinusStep => resp'.target = <<36>>]_vars

\* the example's advance was computed
C11_Witness ==
    /\ nadv = 1 /\ resp.cmd = "CANDIDATE" /\ resp.req[1] = "-"
    /\ resp.y = <<40>> /\ resp.target = <<36>>
    /\ sess[1].past_positions = <<20, 40, 60>>

\* C12: the published status holds the resolved value y, the greatest
\* stored value strictly below y and the least stored value strictly
\* above y, a side without such a value being null, so that y is never
\* its own neighbour; a report is emitted by every admitted START and by
\* every advance that does not fail.
C12_StatusTriple ==
    /\ status.is_active =>
          \E s \in ActiveSessions :
             LET y == calc_position(toolhead_pos)[2]
                 lo == {p \in Range(sess[s].past_positions) : p < y}
                 hi == {p \in Range(sess[s].past_positions) : p > y}
             IN  /\ status.y_position = <<y>>
                 /\ status.y_position_lower =
                       IF lo = {} THEN None ELSE <<SetMax(lo)>>
                 /\ status.y_position_upper =
                       IF hi = {} THEN None ELSE <<SetMin(hi)>>
    /\ (resp.cmd = "START" /\ resp.error = "none") =>
          /\ resp.msgs = <<"starting", "report">>
          /\ status.is_active
          /\ status.y_position_lower = None
          /\ status.y_position_upper = None
    /\ (resp.cmd = "TESTY" /\ resp.error = "none") =>
          /\ resp.msgs # << >>
          /\ resp.msgs[Len(resp.msgs)] = "report"
          /\ status.is_active

\* a report for a stored value that has a neighbour on either side
C12_Witness ==
    /\ resp.cmd = "TESTY" /\ resp.error = "none"
    /\ status.y_position[1] \in Range(sess[resp.sid].past_positions)
    /\ status.y_position_lower # None
    /\ status.y_position_upper # None

\* C13: an advance whose clearance move or target move fails finalizes
\* the session as failed (status cleared, commands uninstalled, callback
\* called once without a value), reports the failure to its caller,
\* issues no move after the failed one and emits no status report.
C13_MotionFailureIsTerminal ==
    [][(TestyStep /\ resp'.error = "motion") =>
         /\ status' = [is_active |-> FALSE, y_position |-> None,
                       y_position_lower |-> None, y_position_upper |-> None]
         /\ handlers' = NoHandlers
         /\ callbacks'[resp'.sid] = <<None>>
         /\ nfinal'[resp'.sid] = 1
         /\ resp'.msgs = << >>
         /\ LET t == resp'.target[1]
                mv == resp'.moves
            IN  \/ /\ Len(mv) = 1
                   /\ toolhead_pos' = toolhead_pos
                \/ /\ Len(mv) = 2
                   /\ mv[1][1] = t + Y_BOB_MINIMUM
                   /\ mv[2][1] = t
                   /\ toolhead_pos' =
                         [toolhead_pos EXCEPT ![3] = t + Y_BOB_MINIMUM]]_vars

\* the target move failed after the clearance move was made
C13_Witness ==
    /\ resp.cmd = "TESTY" /\ resp.error = "motion"
    /\ Len(resp.moves) = 2
    /\ toolhead_pos[3] = resp.target[1] + Y_BOB_MINIMUM
    /\ ~ status.is_active

\* ------------------------------------ a completion callback that restarts
\* a finalize whose commands are still registered when the callback runs
finalize_at_callback_guard_held(s, success) ==
    [status |-> reset_status, handlers |-> handlers]

\* lines 232-240: what the dispatcher and the status record hold at the
\* moment line 240 calls finalize_callback
finalize_at_callback(s, success) ==
    [status |-> reset_status, handlers |-> NoHandlers]

\* cmd_ABORT of a session whose finalize_callback constructs the next
\* BeltProbeHelper; resp.error is what that construction met
ABORTRestart(arg) ==
    /\ handlers["ABORT"] # 0
    /\ nsess < MaxSessions
    /\ \E s \in {handlers["ABORT"]} :
       \E at \in {finalize_at_callback(s, FALSE)} :
       \E f \in {finalize(s, FALSE)} :
           /\ callbacks' = f.callbacks
           /\ nfinal' = f.nfinal
           /\ IF verify_no_manual_probe(at.handlers)
              THEN \E n \in {nsess + 1} :
                   \E rec \in {[NewSession EXCEPT
                                  !.speed = IF arg = None THEN DEFAULT_SPEED
                                                          ELSE arg[1],
                                  !.start_position = toolhead_pos]} :
                   \E r \in {report_y_status(rec, toolhead_pos, FALSE,
                                             None)} :
                       /\ nsess' = n
                       /\ handlers' = [c \in Cmds |-> n]
                       /\ sess' = [f.sess EXCEPT ![n] = r.rec]
                       /\ status' = r.status
                       /\ resp' = Response("ABORT_RESTART", n, "none",
                                           <<"starting">> \o r.msgs, << >>,
                                           None, None, None, r.flushes)
              ELSE /\ handlers' = f.handlers
                   /\ sess' = f.sess
                   /\ status' = f.status
                   /\ resp' = Response("ABORT_RESTART", s, "conflict",
                                       << >>, << >>, None, None, None, 0)
                   /\ UNCHANGED nsess
    /\ UNCHANGED <<toolhead_pos, nadv, BeltProbe_status>>

NextRestart ==
    \/ Next
    \/ \E arg \in SpeedArgs : ABORTRestart(arg)

SpecRestart == Init /\ [][NextRestart]_vars

\* C14 as stated: the guard is released only after the completion
\* callback, so a START made from within the callback is refused with a
\* conflict.
C14_StartInCallbackRefused ==
    resp.cmd = "ABORT_RESTART" =>
        /\ resp.error = "conflict"
        /\ ActiveSessions = {}

\* C14 amended: the commands, whose registration is the guard, are
\* uninstalled before the callback runs; a START made from within the
\* callback is admitted, and the new session is active with the status
\* it reported once the finalized session has had its one callback.
C14_StartInCallbackAdmitted ==
    resp.cmd = "ABORT_RESTART" =>
        /\ resp.error = "none"
        /\ resp.sid = nsess
        /\ ActiveSessions = {nsess}
        /\ Installed(nsess)
        /\ status.is_active
        /\ nfinal[nsess - 1] = 1
        /\ callbacks[nsess - 1] = <<None>>

\* a session was started from the callback of the aborted first one
C14_Witness ==
    /\ resp.cmd = "ABORT_RESTART" /\ resp.error = "none"
    /\ nsess = 2 /\ Active(2) /\ callbacks[1] = <<None>>

\* C15 as stated: after an advance that did not fail, the warning is
\* emitted iff the resolved value after the move is the one before it,
\* for every token and offset; the session stays active.
C15_WarnIffUnchanged ==
    (resp.cmd = "TESTY" /\ resp.error = "none") =>
        /\ (\E i \in DOMAIN resp.msgs : resp.msgs[i] = "no_change")
              <=> status.y_position = resp.y
        /\ Active(resp.sid) /\ Installed(resp.sid)

\* C15 amended: ... iff the resolved value after the move is the one
\* before it and the candidate differs from that value (an explicit
\* offset of 0 never warns)
C15_WarnIffUnchangedAndRequested ==
    (resp.cmd = "TESTY" /\ resp.error = "none") =>
        /\ (\E i \in DOMAIN resp.msgs : resp.msgs[i] = "no_change")
              <=> (status.y_position = resp.y /\ resp.target # resp.y)
        /\ resp.msgs \in {<<"report">>, <<"no_change", "report">>}
        /\ Active(resp.sid) /\ Installed(resp.sid)

\* a fine step whose candidate resolves to the value it started from
C15_Witness ==
    /\ resp.cmd = "TESTY" /\ resp.error = "none"
    /\ resp.msgs = <<"no_change", "report">>
    /\ resp.target # resp.y
    /\ toolhead_pos[3] = resp.target[1]
    /\ Active(resp.sid)

\* C16: an advance that does not fail issues, from a height below
\* y' + Y_BOB_MINIMUM, exactly the two moves to y' + Y_BOB_MINIMUM and
\* to y', and otherwise exactly the one move to y'; every move is made at
\* the speed the session was started with, and only the driven
\* coordinate changes.
C16_LiftAndReturn ==
    [][(TestyStep /\ resp'.error = "none") =>
         LET t == resp'.target[1]
             sp == sess[resp'.sid].speed
         IN  /\ resp'.moves =
                   IF toolhead_pos[3] < t + Y_BOB_MINIMUM
                   THEN <<<<t + Y_BOB_MINIMUM, sp>>, <<t, sp>>>>
                   ELSE <<<<t, sp>>>>
             /\ toolhead_pos' = [toolhead_pos EXCEPT ![3] = t]
             /\ sess'[resp'.sid].speed = sp
             /\ sp \in {DEFAULT_SPEED} \cup {a[1] : a \in SpeedArgs \ {None}}
       ]_vars

\* one move, without lift, at a speed given with START
C16_Witness ==
    /\ resp.cmd = "TESTY" /\ resp.error = "none"
    /\ Len(resp.moves) = 1
    /\ resp.moves[1][2] # DEFAULT_SPEED
    /\ resp.moves[1][1] = toolhead_pos[3]

\* the number of flushes one call of get_kinematics_pos makes when the
\* cached raw position is c and the toolhead is at p
Miss(c, p) == IF c = p THEN 0 ELSE 1

\* C17: every call of get_kinematics_pos whose cached raw position is the
\* toolhead's position returns the cached coordinates without a flush
\* and leaves the cache, and every other call flushes once and stores
\* the pair (raw position, resolved coordinates); so after a command
\* that called it the cached raw position is the toolhead's position.
\* A move by the operator between two commands leaves the cache.
C17_PositionCache ==
    [][/\ (resp'.cmd = "START" /\ resp'.error = "none") =>
            /\ resp'.flushes = 1
            /\ sess'[resp'.sid].last_toolhead_pos = toolhead_pos'
            /\ sess'[resp'.sid].last_kinematics_pos
                  = calc_position(toolhead_pos')
       /\ TestyStep =>
            LET s == resp'.sid
                c == sess[s].last_toolhead_pos
            IN  /\ resp'.y = IF c = toolhead_pos
                             THEN <<sess[s].last_kinematics_pos[2]>>
                             ELSE <<calc_position(toolhead_pos)[2]>>
                /\ resp'.error = "none" =>
                     /\ resp'.flushes = Miss(c, toolhead_pos)
                                        + Miss(toolhead_pos, toolhead_pos')
                     /\ sess'[s].last_toolhead_pos = toolhead_pos'
                     /\ sess'[s].last_kinematics_pos
                           = calc_position(toolhead_pos')
                /\ resp'.error = "motion" =>
                     resp'.flushes = Miss(c, toolhead_pos)
       /\ AcceptStep =>
            LET s == resp'.sid
                c == sess[s].last_toolhead_pos
            IN  IF AcceptSucceeded
                THEN /\ resp'.flushes = Miss(c, toolhead_pos)
                     /\ callbacks'[s] =
                           <<IF c = toolhead_pos
                             THEN sess[s].last_kinematics_pos
                             ELSE calc_position(toolhead_pos)>>
                ELSE resp'.flushes = 0
       /\ resp'.cmd = "JOG" => sess' = sess
      ]_vars

\* an advance whose two calls both found the cache valid: the lift and
\* the return end where the advance began
C17_Witness ==
    /\ resp.cmd = "TESTY" /\ resp.error = "none"
    /\ resp.flushes = 0
    /\ Len(resp.moves) = 2
    /\ sess[resp.sid].last_toolhead_pos = toolhead_pos

\* the names bound in the module's namespace when a command runs (lines
\* 7-8: imports; 11, 88, 98, 99, 104, 243: definitions)
ModuleNames ==
    {"logging", "bisect", "BeltProbe", "verify_no_manual_probe",
     "Y_BOB_MINIMUM", "BISECT_MAX", "BeltProbeHelper", "load_config"}

\* the commands BeltProbe registers to begin a session (lines 17, 26)
StartCommands == {"BELT_PROBE", "Y_ENDSTOP_CALIBRATE"}

\* cmd_MANUAL_PROBE and cmd_Y_ENDSTOP_CALIBRATE (lines 51-52, 67-68):
\* the one statement of each calls the name ManualProbeHelper, which the
\* module neither defines nor imports, so the call raises NameError
\* before any helper is constructed
StartCommand(cmd, arg) ==
    /\ "ManualProbeHelper" \notin ModuleNames
    /\ resp' = Response(cmd, 0, "name_error", << >>, << >>,
                        None, None, None, 0)
    /\ UNCHANGED <<toolhead_pos, handlers, sess, nsess, nadv, callbacks,
                   nfinal, status, BeltProbe_status>>

\* the operator's commands together with sessions that a caller begins
\* by constructing BeltProbeHelper itself
NextCommands ==
    \/ Next
    \/ \E cmd \in StartCommands, arg \in SpeedArgs : StartCommand(cmd, arg)

SpecCommands == Init /\ [][NextCommands]_vars

\* C18: BELT_PROBE or Y_ENDSTOP_CALIBRATE issued while no session is
\* active begins a session: the four transient commands are installed,
\* start_position is the position at the command, past_positions is
\* empty and the status reported is active with the current value and
\* no neighbours.
C18_StartCommandBeginsSession ==
    [][(resp'.cmd \in StartCommands /\ ActiveSessions = {}) =>
         /\ nsess' = nsess + 1
         /\ \A c \in Cmds : handlers'[c] = nsess'
         /\ sess'[nsess'].start_position = toolhead_pos
         /\ sess'[nsess'].past_positions = << >>
         /\ status' = [is_active |-> TRUE, y_position |-> <<CurrentY>>,
                       y_position_lower |-> None,
                       y_position_upper |-> None]
         /\ resp'.error = "none"
      ]_vars

\* BeltProbe.get_status (lines 47-48): the record an observer of this
\* module's printer object reads
get_status == BeltProbe_status

\* C19: the record get_status returns is active exactly while a session
\* is active, and is the cleared record whenever none is.
C19_StatusActiveIffSession ==
    /\ get_status.is_active <=> ActiveSessions # {}
    /\ ActiveSessions = {} => get_status = reset_status

\* C20: with a relative token the candidate of an advance lies on the
\* requested side of the current value y and at most BISECT_MAX from it:
\* y < y' <= y + BISECT_MAX for + and ++, y - BISECT_MAX <= y' < y for -
\* and --; a fine step with no stored value on its side moves by exactly
\* BISECT_MAX, as the coarse step does.
C20_RelativeStepSideAndBound ==
    [][TestyStep =>
         LET y == CurrentY
             t == resp'.target[1]
             tok == resp'.req[1]
         IN  /\ resp'.y = <<y>>
             /\ tok \in {"+", "++"} => y < t /\ t <= y + BISECT_MAX
             /\ tok \in {"-", "--"} => y - BISECT_MAX <= t /\ t < y
             /\ (tok = "+" /\ Above = {}) => t = y + BISECT_MAX
             /\ (tok = "-" /\ Below = {}) => t = y - BISECT_MAX
      ]_vars

\* a fine step down from a value that has no stored value below it
C20_Witness ==
    /\ resp.cmd = "TESTY" /\ resp.error = "none" /\ resp.req[1] = "-"
    /\ \A p \in Range(sess[resp.sid].past_positions) : p >= resp.y[1]
    /\ resp.target[1] = resp.y[1] - BISECT_MAX
    /\ toolhead_pos[3] = resp.target[1]
====
